---- MODULE Spec2Model ----
(***************************************************************************)
(* Kaiowa Core: the expression tree (criteria.py, terms.py) and the        *)
(* statement builder (selectables.py), with rendering to SQL text.         *)
(*                                                                         *)
(* Python objects live in explicit state: expression nodes in the heap     *)
(* `nodes` (a node's id is its index), tables and queries under their      *)
(* identifiers.  An optional value (None or x) is the sequence <<>> or     *)
(* <<x>>.  SQL text is a TLA+ string, built with \o as the code builds it. *)
(***************************************************************************)
EXTENDS Integers, Sequences, FiniteSets, TLC

VARIABLES
    nodes,        \* heap of expression nodes (Field, Binary)
    _alias,       \* Selectable._alias of every table and query
    _operation,   \* Query._operation
    _selectable,  \* Query._selectable
    _joins,       \* Query._joins
    _distinct,    \* Query._distinct
    _only,        \* Query._only
    _terms,       \* Query._terms
    _criteria,    \* Query._criteria
    result,       \* outcome of the most recent call
    calls         \* number of calls made so far

vars == <<nodes, _alias, _operation, _selectable, _joins, _distinct, _only,
          _terms, _criteria, result, calls>>

queryVars == <<_operation, _selectable, _joins, _distinct, _only, _terms,
               _criteria>>

----------------------------------------------------------------------------
(* Bounds of the model. *)

\* The caller makes at most MaxCalls calls.
MaxCalls == 5
\* The caller builds expression nodes while the heap holds fewer than
\* MaxNodes.
MaxNodes == 5

----------------------------------------------------------------------------
(* Python values. *)

None == <<>>
Some(x) == <<x>>

\* str.format / f-string of an optional string: None formats as "None".
PyFormat(opt) == IF opt = None THEN "None" ELSE opt[1]

\* Truthiness of an optional string: None and "" are falsy.
Truthy(opt) == opt # None /\ opt[1] # ""

\* An operand of an expression node, or an argument of an operator:
\*   raw    a Python-native scalar, kept as its type and its str() text;
\*   const  a Constant object held by this operand alone, kept as its value;
\*   ref    a reference to an expression node of the heap.
Raw(ty, text) == [tag |-> "raw", ty |-> ty, text |-> text, id |-> 0]
Ref(n) == [tag |-> "ref", ty |-> "", text |-> "", id |-> n]
NoOperand == [tag |-> "none", ty |-> "", text |-> "", id |-> 0]

RawScalars ==
    { Raw("int", "1"), Raw("float", "1.5"), Raw("bool", "True"),
      Raw("bool", "False"), Raw("str", "a"), Raw("str", "it's") }

RECURSIVE Contains(_, _)
\* `ch in s` for a one-character ch.
Contains(s, ch) ==
    IF Len(s) = 0 THEN FALSE
    ELSE SubSeq(s, 1, 1) = ch \/ Contains(SubSeq(s, 2, Len(s)), ch)

UpperChar(c) ==
    CASE c = "a" -> "A" [] c = "e" -> "E" [] c = "l" -> "L" [] c = "r" -> "R"
      [] c = "s" -> "S" [] c = "u" -> "U" [] c = "i" -> "I" [] c = "t" -> "T"
      [] OTHER -> c

RECURSIVE Upper(_)
\* str.upper over the letters the model's values use.
Upper(s) ==
    IF Len(s) = 0 THEN ""
    ELSE UpperChar(SubSeq(s, 1, 1)) \o Upper(SubSeq(s, 2, Len(s)))

\* utils.quote(value, quote_char) with an explicit quote character.
quote(value, quote_char) == quote_char \o value \o quote_char

\* A make_alias that writes nothing for an alias that is None.
make_alias_none_as_empty(query, optAlias) ==
    query \o " AS " \o (IF optAlias = None THEN "" ELSE optAlias[1])

\* utils.make_alias(query, alias) with as_ = True.
make_alias(query, optAlias) == query \o " AS " \o PyFormat(optAlias)

----------------------------------------------------------------------------
(* Selectables: tables and queries, each an object with an identity. *)

Tables == {"t1", "t2"}
Queries == {"q", "sub"}
Selectables == Tables \cup Queries

\* Table._name, set by Table.__init__.
_name(t) == IF t = "t1" THEN "users" ELSE "logs"

\* Selectable.alias, overridden by Table.alias.
AliasOf(s) ==
    IF s \in Tables
    THEN (IF Truthy(_alias[s]) THEN _alias[s] ELSE Some(_name(s)))
    ELSE _alias[s]

----------------------------------------------------------------------------
(* Expression nodes. *)

Comparisons ==
    {"Equal", "NotEqual", "LessThan", "LessEqual", "GreaterThan", "GreaterEqual"}
Grouped ==
    {"And", "Or", "Addition", "Subtraction", "Multiplication", "Division"}
BinaryClasses == Comparisons \cup Grouped

\* Field.__init__
Field(name, parent) ==
    [cls |-> "Field", name |-> name, parent |-> parent,
     left |-> NoOperand, right |-> NoOperand]

\* Constant.__init__: self.value, the text of the scalar, is fixed at
\* construction.
Constant(value) ==
    [tag |-> "const", ty |-> "",
     text |-> IF value.ty = "bool" THEN Upper(value.text)
              ELSE IF value.ty = "str"
                   THEN quote(value.text,
                              IF Contains(value.text, "'") THEN "\"" ELSE "'")
                   ELSE value.text,
     id |-> 0]

\* Binary.__init__: the operands are stored as given.
Binary(cls, left, right) ==
    [cls |-> cls, name |-> "", parent |-> "", left |-> left, right |-> right]

\* A _parse_value that returns every value as it is.
_parse_value_as_given(value) == value

\* Criterion._parse_value: a scalar becomes a new Constant; anything else
\* is returned as it is.
_parse_value(value) == IF value.tag = "raw" THEN Constant(value) ELSE value

\* The symbol a binary node writes between its operands.
Symbol(cls) ==
    CASE cls = "Equal" -> " = "
      [] cls = "NotEqual" -> " <> "
      [] cls = "LessThan" -> " < "
      [] cls = "LessEqual" -> " <= "
      [] cls = "GreaterThan" -> " > "
      [] cls = "GreaterEqual" -> " >= "
      [] cls = "And" -> " AND "
      [] cls = "Or" -> " OR "
      [] cls = "Addition" -> " + "
      [] cls = "Subtraction" -> " - "
      [] cls = "Multiplication" -> " * "
      [] cls = "Division" -> " / "

RECURSIVE StrOperand(_)

\* An Equal.__str__ that renders the operands as stored and parses
\* self.right afterwards.
Equal__str__parse_last(n) ==
    [right |-> _parse_value(nodes[n].right),
     text |-> StrOperand(nodes[n].left) \o " = "
              \o StrOperand(nodes[n].right)]

\* Equal.__str__ of node n: self.right is reassigned to its parsed value,
\* then both operands are rendered.  The new self.right and the text.
Equal__str__(n) ==
    LET right == _parse_value(nodes[n].right)
    IN  [right |-> right,
         text |-> StrOperand(nodes[n].left) \o " = " \o StrOperand(right)]

\* A str(x) whose And, Or and arithmetic nodes put parentheses around the
\* left operand only.
StrOperand_bare_right(x) ==
    IF x.tag # "ref" THEN x.text
    ELSE
      LET nd == nodes[x.id]
      IN  CASE nd.cls = "Field" ->
                 PyFormat(AliasOf(nd.parent)) \o "." \o nd.name
            [] nd.cls = "Equal" -> Equal__str__(x.id).text
            [] nd.cls \in Comparisons \ {"Equal"} ->
                 StrOperand(nd.left) \o Symbol(nd.cls) \o StrOperand(nd.right)
            [] nd.cls \in Grouped ->
                 "(" \o StrOperand(nd.left) \o ")" \o Symbol(nd.cls)
                     \o StrOperand(nd.right)

\* str(x) of an operand x: str of a scalar is its Python text, str of a
\* Constant its value, str of a node the node's __str__.
StrOperand(x) ==
    IF x.tag # "ref" THEN x.text
    ELSE
      LET nd == nodes[x.id]
      IN  CASE nd.cls = "Field" ->
                 PyFormat(AliasOf(nd.parent)) \o "." \o nd.name
            [] nd.cls = "Equal" -> Equal__str__(x.id).text
            [] nd.cls \in Comparisons \ {"Equal"} ->
                 StrOperand(nd.left) \o Symbol(nd.cls) \o StrOperand(nd.right)
            [] nd.cls \in Grouped ->
                 "(" \o StrOperand(nd.left) \o ")" \o Symbol(nd.cls)
                     \o "(" \o StrOperand(nd.right) \o ")"

\* str(node) of the node with identifier n.
StrNode(n) == StrOperand(Ref(n))

RECURSIVE StrJoin(_, _)
\* sep.join([str(x) for x in ids]) over node identifiers, left to right.
StrJoin(ids, sep) ==
    IF ids = <<>> THEN ""
    ELSE IF Len(ids) = 1 THEN StrNode(Head(ids))
    ELSE StrNode(Head(ids)) \o sep \o StrJoin(Tail(ids), sep)

RECURSIVE Visited(_)
\* The nodes whose __str__ runs when str(x) runs: x and, through the
\* operands of the binary nodes, every node under it.
Visited(x) ==
    IF x.tag # "ref" THEN {}
    ELSE {x.id} \cup Visited(nodes[x.id].left) \cup Visited(nodes[x.id].right)

\* The nodes whose __str__ runs when every node of ids is rendered.
VisitedIn(ids) == UNION {Visited(Ref(ids[k])) : k \in 1..Len(ids)}

\* The heap after the __str__ of every node of seen has run: each Equal
\* among them holds the right operand its __str__ assigned.
AfterStr(seen) ==
    [n \in 1..Len(nodes) |->
       IF n \in seen /\ nodes[n].cls = "Equal"
       THEN [nodes[n] EXCEPT !.right = Equal__str__(n).right]
       ELSE nodes[n]]

----------------------------------------------------------------------------
(* Rendering a Query.  A render gives the text, the exception raised ("" *)
(* when none; the text is then "") and the expression nodes it rendered  *)
(* on the way.                                                           *)

Ok(text, seen) == [text |-> text, err |-> "", seen |-> seen]
Raise(exc, seen) == [text |-> "", err |-> exc, seen |-> seen]

\* JoinTypes: the keyword of each join method.
JoinTypes ==
    [join |-> "JOIN", inner_join |-> "INNER JOIN", outer_join |-> "OUTER JOIN",
     left_join |-> "LEFT JOIN", right_join |-> "RIGHT JOIN",
     left_outer_join |-> "LEFT OUTER JOIN",
     right_outer_join |-> "RIGHT OUTER JOIN",
     full_outer_join |-> "FULL OUTER JOIN", cross_join |-> "CROSS JOIN"]

RECURSIVE Query__str__(_)

\* str(selectable): Table.__str__ is the name, Query.__str__ the statement.
StrSelectable(s) ==
    IF s \in Tables THEN Ok(_name(s), {}) ELSE Query__str__(s)

\* Query._parse_terms
_parse_terms(i) ==
    LET joined == StrJoin(_terms[i], ",")
    IN  Ok(IF joined # "" THEN joined
           ELSE PyFormat(AliasOf(_selectable[i][1])) \o ".*",
           VisitedIn(_terms[i]))

\* The filters of a join record that `if filters:` lets through.
Filters(j) == IF j.filters = None THEN <<>> ELSE j.filters[1]

RECURSIVE JoinsSql(_)

\* A _parse_joins loop that writes " ON " for every join record, without
\* the `if filters:` test.
JoinsSql_always_on(js) ==
    IF js = <<>> THEN Ok("", {})
    ELSE
      LET j == Head(js)
          s == StrSelectable(j.selectable)
          rest == JoinsSql(Tail(js))
          seen == s.seen \cup VisitedIn(Filters(j))
      IN  IF s.err # "" THEN s
          ELSE IF rest.err # "" THEN Raise(rest.err, seen \cup rest.seen)
          ELSE Ok(" " \o JoinTypes[j.kind] \o " "
                      \o make_alias(s.text, AliasOf(j.selectable))
                      \o " ON " \o StrJoin(Filters(j), "")
                      \o rest.text,
                  seen \cup rest.seen)

\* The loop of Query._parse_joins over the join records js.
JoinsSql(js) ==
    IF js = <<>> THEN Ok("", {})
    ELSE
      LET j == Head(js)
          s == StrSelectable(j.selectable)
          rest == JoinsSql(Tail(js))
          seen == s.seen \cup VisitedIn(Filters(j))
      IN  IF s.err # "" THEN s
          ELSE IF rest.err # "" THEN Raise(rest.err, seen \cup rest.seen)
          ELSE Ok(" " \o JoinTypes[j.kind] \o " "
                      \o make_alias(s.text, AliasOf(j.selectable))
                      \o (IF Filters(j) # <<>>
                          THEN " ON " \o StrJoin(Filters(j), "") ELSE "")
                      \o rest.text,
                  seen \cup rest.seen)

\* Query._parse_joins
_parse_joins(i) == JoinsSql(_joins[i])

\* Query._parse_criteria
_parse_criteria(i) ==
    Ok(" WHERE " \o StrJoin(_criteria[i], ""), VisitedIn(_criteria[i]))

\* Query._make_select
_make_select(i) ==
    LET entity == _selectable[i]
        t == _parse_terms(i)
        e == StrSelectable(entity[1])
        j == IF _joins[i] # <<>> THEN _parse_joins(i) ELSE Ok("", {})
        c == IF _criteria[i] # <<>> THEN _parse_criteria(i) ELSE Ok("", {})
        sql == (IF _distinct[i] THEN "SELECT DISTINCT" ELSE "SELECT")
               \o " " \o t.text \o " FROM "
               \o (IF entity[1] \in Tables THEN e.text
                   ELSE "(" \o e.text \o ")")
    IN  IF entity = None THEN Raise("AttributeError", {})
        ELSE IF e.err # "" THEN Raise(e.err, t.seen \cup e.seen)
        ELSE IF j.err # "" THEN Raise(j.err, t.seen \cup e.seen \cup j.seen)
        ELSE Ok(make_alias(sql, AliasOf(entity[1])) \o j.text \o c.text,
                t.seen \cup e.seen \cup j.seen \cup c.seen)

\* A _make_delete that appends the join clauses as _make_select does.
_make_delete_with_joins(i) ==
    LET entity == _selectable[i]
        e == StrSelectable(entity[1])
        j == IF _joins[i] # <<>> THEN _parse_joins(i) ELSE Ok("", {})
        c == IF _criteria[i] # <<>> THEN _parse_criteria(i) ELSE Ok("", {})
        sql == (IF _only[i] THEN "DELETE FROM ONLY " ELSE "DELETE FROM ")
               \o e.text
    IN  IF entity = None THEN Raise("AttributeError", {})
        ELSE IF e.err # "" THEN e
        ELSE Ok(make_alias(sql, AliasOf(entity[1])) \o j.text \o c.text,
                e.seen \cup j.seen \cup c.seen)

\* Query._make_delete
_make_delete(i) ==
    LET entity == _selectable[i]
        e == StrSelectable(entity[1])
        c == IF _criteria[i] # <<>> THEN _parse_criteria(i) ELSE Ok("", {})
        sql == (IF _only[i] THEN "DELETE FROM ONLY " ELSE "DELETE FROM ")
               \o e.text
    IN  IF entity = None THEN Raise("AttributeError", {})
        ELSE IF e.err # "" THEN e
        ELSE Ok(make_alias(sql, AliasOf(entity[1])) \o c.text,
                e.seen \cup c.seen)

\* A Query.__str__ that falls back to the SELECT builder when no operation
\* is set.
Query__str__default_select(i) ==
    IF _operation[i] = Some("delete") THEN _make_delete(i)
    ELSE _make_select(i)

\* Query.__str__: the builder is looked up by name.  A name that is no
\* method of Query reaches Selectable.__getattr__, which returns a Field,
\* and calling a Field raises TypeError.
Query__str__(i) ==
    LET builder == "_make_" \o PyFormat(_operation[i])
    IN  CASE builder = "_make_select" -> _make_select(i)
          [] builder = "_make_delete" -> _make_delete(i)
          [] OTHER -> Raise("TypeError", {})

----------------------------------------------------------------------------
(* The objects the caller has built before the first builder call:         *)
(* users = Table("users"), logs = Table("logs"), the fields users.id and   *)
(* logs.name, the criteria users.id == "a" and logs.name != users.id, and two     *)
(* new Query objects.                                                      *)

F1 == 1
F2 == 2
E1 == 3
E2 == 4

InitNodes ==
    << Field("id", "t1"),
       Field("name", "t2"),
       Binary("Equal", Ref(F1), Raw("str", "a")),
       Binary("NotEqual", Ref(F2), Ref(F1)) >>

\* Arguments the caller passes.
TermInputs == {<<>>, <<F1>>, <<F2>>, <<F1, F2>>}
CriteriaInputs == {<<>>, <<E1>>, <<E2>>, <<E1, E2>>}
AliasInputs == {"u"}
JoinInputs == {"t2"}

\* Outcome of a call: the builder methods return self, str returns text.
New == [kind |-> "new", val |-> ""]
Self == [kind |-> "self", val |-> ""]
Text(sql) == [kind |-> "str", val |-> sql]
Raised(exc) == [kind |-> "raise", val |-> exc]

\* Query.__init__ for every query; no table has an alias yet.
Init ==
    /\ nodes = InitNodes
    /\ _alias = [s \in Selectables |-> None]
    /\ _operation = [i \in Queries |-> None]
    /\ _selectable = [i \in Queries |-> None]
    /\ _joins = [i \in Queries |-> <<>>]
    /\ _distinct = [i \in Queries |-> FALSE]
    /\ _only = [i \in Queries |-> FALSE]
    /\ _terms = [i \in Queries |-> <<>>]
    /\ _criteria = [i \in Queries |-> <<>>]
    /\ result = New
    /\ calls = 0

----------------------------------------------------------------------------
(* The builder methods. *)

\* An extend that puts the new items first.
extend_in_front(xs, ys) == ys \o xs

\* list.extend
extend(xs, ys) == xs \o ys

\* A Table.as_ that keeps an alias set before: self._alias = self._alias or
\* alias.
Table_as_keeps_first(t, a) ==
    /\ _alias' = [_alias EXCEPT ![t] = IF Truthy(@) THEN @ ELSE Some(a)]
    /\ result' = Self
    /\ UNCHANGED <<nodes, queryVars>>

\* Table.as_
Table_as_(t, a) ==
    /\ _alias' = [_alias EXCEPT ![t] = Some(a)]
    /\ result' = Self
    /\ UNCHANGED <<nodes, queryVars>>

\* Query.as_
as_(i, a) ==
    /\ _alias' = [_alias EXCEPT ![i] = Some(a)]
    /\ result' = Self
    /\ UNCHANGED <<nodes, queryVars>>

\* Query.select
select(i, ts) ==
    /\ _operation' = [_operation EXCEPT ![i] = Some("select")]
    /\ _terms' = [_terms EXCEPT ![i] = extend(@, ts)]
    /\ result' = Self
    /\ UNCHANGED <<nodes, _alias, _selectable, _joins, _distinct, _only,
                   _criteria>>

\* A delete that starts the statement over and drops the terms.
delete_clears_terms(i, o) ==
    /\ _operation' = [_operation EXCEPT ![i] = Some("delete")]
    /\ _only' = [_only EXCEPT ![i] = o]
    /\ _terms' = [_terms EXCEPT ![i] = <<>>]
    /\ result' = Self
    /\ UNCHANGED <<nodes, _alias, _selectable, _joins, _distinct, _criteria>>

\* A delete that keeps an operation already set.
delete_keeps_operation(i, o) ==
    /\ _operation' = [_operation EXCEPT ![i] =
                        IF @ = None THEN Some("delete") ELSE @]
    /\ _only' = [_only EXCEPT ![i] = o]
    /\ result' = Self
    /\ UNCHANGED <<nodes, _alias, _selectable, _joins, _distinct, _terms,
                   _criteria>>

\* Query.delete
delete(i, o) ==
    /\ _operation' = [_operation EXCEPT ![i] = Some("delete")]
    /\ _only' = [_only EXCEPT ![i] = o]
    /\ result' = Self
    /\ UNCHANGED <<nodes, _alias, _selectable, _joins, _distinct, _terms,
                   _criteria>>

\* Query.distinct
distinct(i) ==
    /\ _distinct' = [_distinct EXCEPT ![i] = TRUE]
    /\ result' = Self
    /\ UNCHANGED <<nodes, _alias, _operation, _selectable, _joins, _only,
                   _terms, _criteria>>

\* Query.from_
from_(i, s) ==
    /\ _selectable' = [_selectable EXCEPT ![i] = Some(s)]
    /\ result' = Self
    /\ UNCHANGED <<nodes, _alias, _operation, _joins, _distinct, _only,
                   _terms, _criteria>>

\* A join record put in front of the list, self._joins.insert(0, ...).
AppendJoin_in_front(i, kind, s) ==
    /\ _joins' = [_joins EXCEPT ![i] =
                    <<[kind |-> kind, selectable |-> s, filters |-> None]>>
                    \o @]
    /\ result' = Self
    /\ UNCHANGED <<nodes, _alias, _operation, _selectable, _distinct, _only,
                   _terms, _criteria>>

\* self._joins.append([kind, selectable, None]), the body of every join
\* method.
AppendJoin(i, kind, s) ==
    /\ _joins' = [_joins EXCEPT ![i] =
                    Append(@, [kind |-> kind, selectable |-> s,
                               filters |-> None])]
    /\ result' = Self
    /\ UNCHANGED <<nodes, _alias, _operation, _selectable, _distinct, _only,
                   _terms, _criteria>>

join(i, s) == AppendJoin(i, "join", s)
inner_join(i, s) == AppendJoin(i, "inner_join", s)
outer_join(i, s) == AppendJoin(i, "outer_join", s)
left_join(i, s) == AppendJoin(i, "left_join", s)
right_join(i, s) == AppendJoin(i, "right_join", s)
left_outer_join(i, s) == AppendJoin(i, "left_outer_join", s)
right_outer_join(i, s) == AppendJoin(i, "right_outer_join", s)
full_outer_join(i, s) == AppendJoin(i, "full_outer_join", s)
cross_join(i, s) == AppendJoin(i, "cross_join", s)

\* An on that does nothing and returns self when there is no join.
on_ignores_missing_join(i, fs) ==
    IF _joins[i] = <<>>
    THEN /\ result' = Self
         /\ UNCHANGED <<nodes, _alias, queryVars>>
    ELSE /\ _joins' = [_joins EXCEPT ![i][Len(_joins[i])].filters = Some(fs)]
         /\ result' = Self
         /\ UNCHANGED <<nodes, _alias, _operation, _selectable, _distinct,
                        _only, _terms, _criteria>>

\* An on that writes to the first join record, self._joins[0][2].
on_first_join(i, fs) ==
    IF _joins[i] = <<>>
    THEN /\ result' = Raised("IndexError")
         /\ UNCHANGED <<nodes, _alias, queryVars>>
    ELSE /\ _joins' = [_joins EXCEPT ![i][1].filters = Some(fs)]
         /\ result' = Self
         /\ UNCHANGED <<nodes, _alias, _operation, _selectable, _distinct,
                        _only, _terms, _criteria>>

\* Query.on: self._joins[-1][2] = filters.  With no join the subscript
\* raises IndexError before anything is assigned.
on(i, fs) ==
    IF _joins[i] = <<>>
    THEN /\ result' = Raised("IndexError")
         /\ UNCHANGED <<nodes, _alias, queryVars>>
    ELSE /\ _joins' = [_joins EXCEPT ![i][Len(_joins[i])].filters = Some(fs)]
         /\ result' = Self
         /\ UNCHANGED <<nodes, _alias, _operation, _selectable, _distinct,
                        _only, _terms, _criteria>>

\* Query.where
where(i, cs) ==
    /\ _criteria' = [_criteria EXCEPT ![i] = extend(@, cs)]
    /\ result' = Self
    /\ UNCHANGED <<nodes, _alias, _operation, _selectable, _joins, _distinct,
                   _only, _terms>>

\* str(query): the text or the exception, and the heap as the render
\* left it.
__str__(i) ==
    LET r == Query__str__(i)
    IN  /\ nodes' = AfterStr(r.seen)
        /\ result' = IF r.err = "" THEN Text(r.text) ELSE Raised(r.err)
        /\ UNCHANGED <<_alias, queryVars>>

Main == "q"

\* One call of the caller's program, counted against MaxCalls.
Call(A) == calls < MaxCalls /\ A /\ calls' = calls + 1

Next ==
    \/ \E t \in Tables, a \in AliasInputs : Call(Table_as_(t, a))
    \/ \E a \in AliasInputs : Call(as_(Main, a))
    \/ \E ts \in TermInputs : Call(select(Main, ts))
    \/ \E o \in BOOLEAN : Call(delete(Main, o))
    \/ Call(distinct(Main))
    \/ \E s \in Tables : Call(from_(Main, s))
    \/ \E s \in JoinInputs : Call(join(Main, s))
    \/ \E s \in JoinInputs : Call(inner_join(Main, s))
    \/ \E s \in JoinInputs : Call(outer_join(Main, s))
    \/ \E s \in JoinInputs : Call(left_join(Main, s))
    \/ \E s \in JoinInputs : Call(right_join(Main, s))
    \/ \E s \in JoinInputs : Call(left_outer_join(Main, s))
    \/ \E s \in JoinInputs : Call(right_outer_join(Main, s))
    \/ \E s \in JoinInputs : Call(full_outer_join(Main, s))
    \/ \E s \in JoinInputs : Call(cross_join(Main, s))
    \/ \E fs \in CriteriaInputs : Call(on(Main, fs))
    \/ \E cs \in CriteriaInputs : Call(where(Main, cs))
    \/ Call(__str__(Main))

Spec == Init /\ [][Next]_vars

----------------------------------------------------------------------------
(* Building expressions: the operator overloads of Term and Criterion,     *)
(* which are the same in both classes.                                     *)

Overloads ==
    {"__eq__", "__ne__", "__lt__", "__le__", "__gt__", "__ge__", "__and__",
     "__or__", "__add__", "__sub__", "__mul__", "__truediv__", "__radd__",
     "__rsub__", "__rmul__", "__rtruediv__"}

\* The node an overload of the node self constructs from its argument.
OverloadNode(m, self, other) ==
    CASE m = "__eq__" -> Binary("Equal", Ref(self), other)
      [] m = "__ne__" -> Binary("NotEqual", Ref(self), other)
      [] m = "__lt__" -> Binary("LessThan", Ref(self), other)
      [] m = "__le__" -> Binary("LessEqual", Ref(self), other)
      [] m = "__gt__" -> Binary("GreaterThan", Ref(self), other)
      [] m = "__ge__" -> Binary("GreaterEqual", Ref(self), other)
      [] m = "__and__" -> Binary("And", Ref(self), other)
      [] m = "__or__" -> Binary("Or", Ref(self), other)
      [] m = "__add__" -> Binary("Addition", Ref(self), other)
      [] m = "__sub__" -> Binary("Subtraction", Ref(self), other)
      [] m = "__mul__" -> Binary("Multiplication", Ref(self), other)
      [] m = "__truediv__" -> Binary("Division", Ref(self), other)
      [] m = "__radd__" -> Binary("Addition", other, Ref(self))
      [] m = "__rsub__" -> Binary("Subtraction", other, Ref(self))
      [] m = "__rmul__" -> Binary("Multiplication", other, Ref(self))
      [] m = "__rtruediv__" -> Binary("Division", other, Ref(self))

NewNode == [kind |-> "node", val |-> ""]

\* The arguments an overload is called with: a scalar or another node.
Operands == RawScalars \cup {Ref(n) : n \in 1..Len(nodes)}

\* An operator applied to the node self: the new node joins the heap.
Operator(m, self, other) ==
    /\ Len(nodes) < MaxNodes
    /\ nodes' = Append(nodes, OverloadNode(m, self, other))
    /\ result' = NewNode
    /\ UNCHANGED <<_alias, queryVars, calls>>

\* str(node) of an expression node.
node__str__(n) ==
    /\ nodes' = AfterStr(Visited(Ref(n)))
    /\ result' = Text(StrNode(n))
    /\ UNCHANGED <<_alias, queryVars, calls>>

NextExpr ==
    \/ \E m \in Overloads, self \in 1..Len(nodes), other \in Operands :
          Operator(m, self, other)
    \/ \E n \in 1..Len(nodes) : node__str__(n)

SpecExpr == Init /\ [][NextExpr]_vars

----------------------------------------------------------------------------
(* Criterion trees: comparisons and the boolean operators & and |, applied *)
(* to nodes and to the nodes built from them.                              *)

TreeOverloads ==
    {"__eq__", "__ne__", "__lt__", "__le__", "__gt__", "__ge__", "__and__",
     "__or__"}

\* An operator applied to two nodes; the caller builds one node more than
\* in SpecExpr, so that an operand can itself be a built node.
TreeOperator(m, self, other) ==
    /\ Len(nodes) < MaxNodes + 1
    /\ nodes' = Append(nodes, OverloadNode(m, self, Ref(other)))
    /\ result' = NewNode
    /\ UNCHANGED <<_alias, queryVars, calls>>

NextTree ==
    \/ \E m \in TreeOverloads, self \in 1..Len(nodes), other \in 1..Len(nodes) :
          TreeOperator(m, self, other)
    \/ \E n \in 1..Len(nodes) : node__str__(n)

SpecTree == Init /\ [][NextTree]_vars

----------------------------------------------------------------------------
(* Fields and aliases: attribute access on a Selectable, as_ on Tables and *)
(* Queries, and str of an expression node.                                 *)

\* Names the caller asks for by attribute access.
FieldNames == {"x"}
\* Aliases the caller passes to as_.
Aliases == {"u", "v", ""}

\* Selectable.__getattr__: a new Field with the selectable as its parent.
__getattr__(s, key) ==
    /\ Len(nodes) < MaxNodes
    /\ nodes' = Append(nodes, Field(key, s))
    /\ result' = NewNode
    /\ UNCHANGED <<_alias, queryVars, calls>>

NextAlias ==
    \/ \E s \in Selectables, key \in FieldNames :
          __getattr__(s, key)
    \/ \E t \in Tables, a \in Aliases : Table_as_(t, a) /\ UNCHANGED calls
    \/ \E i \in Queries, a \in Aliases : as_(i, a) /\ UNCHANGED calls
    \/ \E n \in 1..Len(nodes) : node__str__(n)

SpecAlias == Init /\ [][NextAlias]_vars

----------------------------------------------------------------------------
(* Nested queries: the Query sub, built by the caller beforehand, is used  *)
(* as FROM target or join target of the Query q.                           *)

Inner == "sub"

\* The inner Query as the caller may have built it: with or without
\* select(), from_(users), a term and a criterion.
InitNested ==
    /\ nodes = InitNodes
    /\ _alias = [s \in Selectables |-> None]
    /\ \E op \in {None, Some("select")}, sel \in {None, Some("t1")},
          ts \in {<<>>, <<F1>>}, cs \in {<<>>, <<E1>>} :
          /\ _operation = [i \in Queries |-> IF i = Inner THEN op ELSE None]
          /\ _selectable = [i \in Queries |-> IF i = Inner THEN sel ELSE None]
          /\ _terms = [i \in Queries |-> IF i = Inner THEN ts ELSE <<>>]
          /\ _criteria = [i \in Queries |-> IF i = Inner THEN cs ELSE <<>>]
    /\ _joins = [i \in Queries |-> <<>>]
    /\ _distinct = [i \in Queries |-> FALSE]
    /\ _only = [i \in Queries |-> FALSE]
    /\ result = New
    /\ calls = 0

NextNested ==
    \/ \E ts \in TermInputs : Call(select(Main, ts))
    \/ Call(distinct(Main))
    \/ \E s \in {"t1", Inner} : Call(from_(Main, s))
    \/ \E s \in {"t2", Inner} : Call(join(Main, s))
    \/ \E fs \in {<<E2>>} : Call(on(Main, fs))
    \/ \E cs \in {<<E2>>} : Call(where(Main, cs))
    \/ \E a \in AliasInputs : Call(as_(Inner, a))
    \/ Call(__str__(Main))
    \/ Call(__str__(Inner))

SpecNested == InitNested /\ [][NextNested]_vars

----------------------------------------------------------------------------
(* Vocabulary of the properties. *)

StartsWith(text, prefix) ==
    Len(text) >= Len(prefix) /\ SubSeq(text, 1, Len(prefix)) = prefix

EndsWith(text, suffix) ==
    /\ Len(text) >= Len(suffix)
    /\ SubSeq(text, Len(text) - Len(suffix) + 1, Len(text)) = suffix

IsPrefix(xs, ys) == Len(xs) <= Len(ys) /\ SubSeq(ys, 1, Len(xs)) = xs

RECURSIVE Concat(_)
\* The strings of a sequence, one after the other.
Concat(ss) == IF ss = <<>> THEN "" ELSE Head(ss) \o Concat(Tail(ss))

\* The text a node renders to in the current state.
TextOf(n) == StrNode(n)

\* The step is a call of one of the join methods on query i.
JoinStep(i) ==
    \E s \in JoinInputs :
        \/ join(i, s) \/ inner_join(i, s) \/ outer_join(i, s)
        \/ left_join(i, s) \/ right_join(i, s) \/ left_outer_join(i, s)
        \/ right_outer_join(i, s) \/ full_outer_join(i, s)
        \/ cross_join(i, s)

\* The step is a call of a builder method that is neither select nor delete.
OtherBuilderStep(i) ==
    \/ \E a \in AliasInputs : as_(i, a)
    \/ distinct(i)
    \/ \E s \in Tables : from_(i, s)
    \/ JoinStep(i)
    \/ \E fs \in CriteriaInputs : on(i, fs)
    \/ \E cs \in CriteriaInputs : where(i, cs)

----------------------------------------------------------------------------
\* C1: the operation is the one set by the most recent select or delete
\* call: a select call leaves it "select", a delete call leaves it "delete",
\* no other builder method and no render changes it; and a render returns a
\* SELECT statement exactly when the operation is "select" and a DELETE
\* statement exactly when it is "delete".
C1_LastOperationWins ==
    /\ [](result.kind = "str" =>
            /\ (StartsWith(result.val, "SELECT ")
                   <=> (_operation[Main] = Some("select")))
            /\ (StartsWith(result.val, "DELETE FROM ")
                   <=> (_operation[Main] = Some("delete"))))
    /\ [][/\ ((\E ts \in TermInputs : select(Main, ts))
                => (_operation'[Main] = Some("select")))
          /\ ((\E o \in BOOLEAN : delete(Main, o))
                => (_operation'[Main] = Some("delete")))
          /\ ((OtherBuilderStep(Main) \/ __str__(Main))
                => (_operation'[Main] = _operation[Main]))]_vars

\* A DELETE statement rendered by a query that select was called on before
\* (its terms are there) and delete after.
C1_Witness ==
    /\ result.kind = "str"
    /\ StartsWith(result.val, "DELETE FROM ")
    /\ _terms[Main] # <<>>

----------------------------------------------------------------------------
\* C2: with at least one join appended, on(criteria...) sets the ON criteria
\* of the last join record and nothing else: the record's kind and
\* selectable, every earlier record, the length of the join list and the
\* other attributes of the Query stay as they were.
C2_OnSetsLastJoinOnly ==
    [][\A fs \in CriteriaInputs :
         (on(Main, fs) /\ _joins[Main] # <<>>) =>
            LET old == _joins[Main]
                new == _joins'[Main]
                n == Len(old)
            IN  /\ Len(new) = n
                /\ \A k \in 1..(n - 1) : new[k] = old[k]
                /\ new[n].kind = old[n].kind
                /\ new[n].selectable = old[n].selectable
                /\ new[n].filters = Some(fs)
                /\ UNCHANGED <<_operation, _selectable, _distinct, _only,
                               _terms, _criteria>>]_vars

\* Two joins, the earlier one with ON criteria of its own, and on called
\* for the later one.
C2_Witness ==
    /\ Len(_joins[Main]) = 2
    /\ _joins[Main][1].filters = Some(<<E1>>)
    /\ _joins[Main][2].filters = Some(<<E2>>)

----------------------------------------------------------------------------
\* The criteria list of query i after where(cs) is called in the current
\* state (the assignment Query.where makes).
AfterWhere(stored, cs) == extend(stored, cs)

\* The WHERE fragment a criteria list renders to.
WhereFragment(stored) == " WHERE " \o StrJoin(stored, "")

\* C3: in every state, for all criteria c1 and c2, where(c1) followed by
\* where(c2) stores the same criteria sequence as where(c1, c2) alone, the
\* two in call order after what was stored before, and both render the same
\* WHERE fragment, the texts of c1 and c2 next to each other with nothing
\* between them.
C3_WhereTwiceIsWhereOnce ==
    \A c1 \in {E1, E2}, c2 \in {E1, E2} :
        LET stored == _criteria[Main]
            twice == AfterWhere(AfterWhere(stored, <<c1>>), <<c2>>)
            once == AfterWhere(stored, <<c1, c2>>)
        IN  /\ twice = once
            /\ once = stored \o <<c1, c2>>
            /\ WhereFragment(twice) = WhereFragment(once)
            /\ WhereFragment(once)
                  = WhereFragment(stored) \o TextOf(c1) \o TextOf(c2)

\* A statement rendered with two criteria stored by two where calls.
C3_Witness ==
    /\ result.kind = "str"
    /\ _criteria[Main] = <<E2, E1>>
    /\ EndsWith(result.val, " WHERE logs.name <> users.idusers.id = 'a'")

----------------------------------------------------------------------------
\* The text of a rendered SELECT, written from the lists in index order.
TermList(i) ==
    Concat([k \in 1..Len(_terms[i]) |->
              (IF k > 1 THEN "," ELSE "") \o TextOf(_terms[i][k])])

JoinList(i) ==
    Concat([k \in 1..Len(_joins[i]) |->
              LET j == _joins[i][k]
                  fs == IF j.filters = None THEN <<>> ELSE j.filters[1]
              IN  " " \o JoinTypes[j.kind] \o " " \o _name(j.selectable)
                      \o " AS " \o AliasOf(j.selectable)[1]
                      \o (IF fs = <<>> THEN ""
                          ELSE " ON " \o Concat([m \in 1..Len(fs) |->
                                                    TextOf(fs[m])]))])

WhereList(i) ==
    IF _criteria[i] = <<>> THEN ""
    ELSE " WHERE " \o Concat([k \in 1..Len(_criteria[i]) |->
                                TextOf(_criteria[i][k])])

\* C4: a rendered SELECT lists the projected terms, then the join clauses,
\* then the WHERE criteria, each in the order of its list; and no step
\* reorders or removes what a list holds: the terms and the criteria before
\* a step are a prefix of those after it, and so are the kinds and
\* selectables of the join records.
C4_AppendOrderKept ==
    /\ []((result.kind = "str" /\ _operation[Main] = Some("select")
            /\ _terms[Main] # <<>>) =>
            LET t == _selectable[Main][1]
            IN  result.val =
                  (IF _distinct[Main] THEN "SELECT DISTINCT " ELSE "SELECT ")
                  \o TermList(Main) \o " FROM " \o _name(t) \o " AS "
                  \o AliasOf(t)[1] \o JoinList(Main) \o WhereList(Main))
    /\ [][/\ IsPrefix(_terms[Main], _terms'[Main])
          /\ IsPrefix(_criteria[Main], _criteria'[Main])
          /\ Len(_joins[Main]) <= Len(_joins'[Main])
          /\ \A k \in 1..Len(_joins[Main]) :
                 /\ _joins'[Main][k].kind = _joins[Main][k].kind
                 /\ _joins'[Main][k].selectable = _joins[Main][k].selectable
          ]_vars

\* A rendered SELECT with a join and with two terms that two select calls
\* added, the later the one with the smaller identifier.
C4_Witness ==
    /\ result.kind = "str"
    /\ _operation[Main] = Some("select")
    /\ _terms[Main] = <<F2, F1>>
    /\ _joins[Main] # <<>>

----------------------------------------------------------------------------
\* C5: a render changes no attribute of the Query, and a render that
\* follows a render with no builder call between them returns the same
\* text.
C5_RenderIsPureRead ==
    [][__str__(Main) =>
         /\ UNCHANGED <<_operation, _selectable, _joins, _distinct, _only,
                        _terms, _criteria>>
         /\ (result.kind = "str" => result' = result)]_vars

\* A statement rendered a second time, after the first render has replaced
\* the right operand of an Equal criterion.
C5_Witness ==
    /\ result.kind = "str"
    /\ calls = 5
    /\ _operation[Main] = Some("delete")
    /\ ~_only[Main]
    /\ _criteria[Main] = <<E1>>
    /\ _joins[Main] = <<>>
    /\ _terms[Main] = <<>>
    /\ ~_distinct[Main]
    /\ _alias = [s \in Selectables |-> None]
    /\ nodes[E1].right.tag = "const"

----------------------------------------------------------------------------
\* C7: a rendered SELECT projects <alias>.* of the FROM target exactly when
\* the terms list is empty, and the comma-joined terms otherwise; and the
\* terms list is empty exactly when no select call ever added a term: a
\* select call with terms leaves it non-empty and no step, a delete call
\* included, empties it.
C7_StarOnlyWithoutTerms ==
    /\ []((result.kind = "str" /\ _operation[Main] = Some("select")) =>
            LET t == _selectable[Main][1]
                head == IF _distinct[Main] THEN "SELECT DISTINCT "
                        ELSE "SELECT "
                star == head \o AliasOf(t)[1] \o ".* FROM "
            IN  /\ (_terms[Main] = <<>>) <=> StartsWith(result.val, star)
                /\ (_terms[Main] # <<>>) =>
                      StartsWith(result.val,
                                 head \o TermList(Main) \o " FROM "))
    /\ [][/\ (_terms[Main] # <<>>) => (_terms'[Main] # <<>>)
          /\ \A ts \in TermInputs \ {<<>>} :
                 select(Main, ts) => (_terms'[Main] # <<>>)]_vars

\* A SELECT rendered with a term, by a query that delete(only=True) was
\* called on as well.
C7_Witness ==
    /\ result.kind = "str"
    /\ _operation[Main] = Some("select")
    /\ _only[Main]
    /\ _terms[Main] = <<F1>>
    /\ StartsWith(result.val, "SELECT users.id FROM ")

----------------------------------------------------------------------------
\* C8: on(...) called while the join list is empty raises IndexError and
\* leaves the Query, the aliases and the expression nodes as they were.
C8_OnWithoutJoinRaises ==
    [][\A fs \in CriteriaInputs :
         (on(Main, fs) /\ _joins[Main] = <<>>) =>
            /\ result' = Raised("IndexError")
            /\ UNCHANGED <<_joins, _criteria, _terms, _operation,
                           _selectable, _distinct, _only, _alias, nodes>>]_vars

\* on has raised IndexError on a query with an operation, a FROM target, a
\* term and a criterion.
C8_Witness ==
    /\ result = Raised("IndexError")
    /\ _joins[Main] = <<>>
    /\ _operation[Main] # None
    /\ _selectable[Main] # None
    /\ _terms[Main] # <<>>
    /\ _criteria[Main] # <<>>

----------------------------------------------------------------------------
\* C9: a render of a Query whose operation was never set raises instead of
\* returning text, whatever else was built, and leaves the Query, the
\* aliases and the expression nodes as they were; so every text a render
\* returns comes from a Query with an operation.
C9_RenderWithoutOperationRaises ==
    /\ [](result.kind = "str" => _operation[Main] # None)
    /\ [][(__str__(Main) /\ _operation[Main] = None) =>
             /\ result'.kind = "raise"
             /\ UNCHANGED <<_joins, _criteria, _terms, _operation,
                            _selectable, _distinct, _only, _alias, nodes>>]_vars

\* The render has raised on a query with a FROM target, a join, a criterion
\* and the distinct flag, and no operation.
C9_Witness ==
    /\ result = Raised("TypeError")
    /\ _operation[Main] = None
    /\ _selectable[Main] # None
    /\ _joins[Main] # <<>>
    /\ _criteria[Main] # <<>>
    /\ _distinct[Main]

----------------------------------------------------------------------------
\* C10: with the operation delete and a Table as FROM target, the rendered
\* text is DELETE FROM [ONLY] <table> AS <alias> [WHERE <criteria>]: ONLY
\* is there exactly when the only flag is set, which each delete call sets
\* to its argument and no other step changes; the WHERE segment is there
\* exactly when the criteria list is not empty; joins, terms and the
\* distinct flag add nothing.
C10_DeleteText ==
    /\ []((result.kind = "str" /\ _operation[Main] = Some("delete")
            /\ _selectable[Main][1] \in Tables) =>
            LET t == _selectable[Main][1]
            IN  result.val =
                  "DELETE FROM " \o (IF _only[Main] THEN "ONLY " ELSE "")
                  \o _name(t) \o " AS " \o AliasOf(t)[1] \o WhereList(Main))
    /\ [][/\ \A o \in BOOLEAN : delete(Main, o) => (_only'[Main] = o)
          /\ ((\E ts \in TermInputs : select(Main, ts))
                \/ OtherBuilderStep(Main) \/ __str__(Main))
               => (_only'[Main] = _only[Main])]_vars

\* A DELETE FROM ONLY rendered by a query that holds a term, a join and the
\* distinct flag.
C10_Witness ==
    /\ result.kind = "str"
    /\ StartsWith(result.val, "DELETE FROM ONLY users AS ")
    /\ _terms[Main] # <<>>
    /\ _joins[Main] # <<>>

----------------------------------------------------------------------------
\* The text of a binary node if each scalar operand were rendered as the
\* Constant of that scalar renders.
OperandLifted(x) ==
    IF x.tag = "raw" THEN Constant(x).text ELSE StrOperand(x)

TextWithLiftedScalars(n) ==
    LET nd == nodes[n]
    IN  IF nd.cls \in Comparisons
        THEN OperandLifted(nd.left) \o Symbol(nd.cls) \o OperandLifted(nd.right)
        ELSE "(" \o OperandLifted(nd.left) \o ")" \o Symbol(nd.cls)
                 \o "(" \o OperandLifted(nd.right) \o ")"

\* C6: every node a binary operator built from a Term or Criterion and a
\* scalar renders the scalar as Constant(scalar) renders, on whichever side
\* the scalar is.
C6_ScalarOperandsLifted ==
    \A n \in 1..Len(nodes) :
        nodes[n].cls \in BinaryClasses => TextOf(n) = TextWithLiftedScalars(n)

----------------------------------------------------------------------------
\* Join record k of query i holds ON criteria: on stored at least one.
HasOn(i, k) == Filters(_joins[i][k]) # <<>>

\* The same of record k after the step.
HasOnNext(i, k) == Filters(_joins'[i][k]) # <<>>

\* The text of a rendered SELECT up to its FROM target.
SelectHead(i) ==
    LET t == _selectable[i][1]
    IN  (IF _distinct[i] THEN "SELECT DISTINCT " ELSE "SELECT ")
        \o (IF _terms[i] = <<>> THEN AliasOf(t)[1] \o ".*" ELSE TermList(i))
        \o " FROM " \o _name(t) \o " AS " \o AliasOf(t)[1]

\* The clause of join record k: keyword, selectable, alias, and the ON
\* segment exactly when the record holds ON criteria.
JoinClause(i, k) ==
    LET j == _joins[i][k]
    IN  " " \o JoinTypes[j.kind] \o " " \o _name(j.selectable) \o " AS "
            \o AliasOf(j.selectable)[1]
            \o (IF HasOn(i, k)
                THEN " ON " \o Concat([m \in 1..Len(Filters(j)) |->
                                          TextOf(Filters(j)[m])])
                ELSE "")

\* A rendered SELECT writes, between the FROM target and the WHERE
\* fragment, the clause of each join record.
RenderedJoinClauses ==
    (result.kind = "str" /\ _operation[Main] = Some("select")) =>
        result.val = SelectHead(Main)
                     \o Concat([k \in 1..Len(_joins[Main]) |->
                                  JoinClause(Main, k)])
                     \o WhereList(Main)

\* C11 as stated: each join of a rendered SELECT renders as keyword,
\* selectable, AS alias, with an ON segment exactly when on was called for
\* it with at least one criterion while it was the last join.  Step by
\* step: a join method appends a record without ON; an on call with a
\* criterion gives the last record its ON; a record that has its ON keeps
\* it; and a record gets an ON from nothing but such an on call.
C11_OnExactlyWhenOnWasCalled ==
    /\ []RenderedJoinClauses
    /\ [][LET n == Len(_joins[Main])
          IN  /\ JoinStep(Main) =>
                    (Len(_joins'[Main]) = n + 1 /\ ~HasOnNext(Main, n + 1))
              /\ \A fs \in CriteriaInputs \ {<<>>} :
                    (on(Main, fs) /\ n > 0) => HasOnNext(Main, n)
              /\ \A k \in 1..n : HasOn(Main, k) => HasOnNext(Main, k)
              /\ \A k \in 1..n :
                    (~HasOn(Main, k) /\ HasOnNext(Main, k)) =>
                       (k = n /\ \E fs \in CriteriaInputs \ {<<>>} :
                                    on(Main, fs))]_vars

\* C11, amended: the ON segment of a join is there exactly when the most
\* recent on call made while it was the last join passed at least one
\* criterion.  Step by step: a join method appends a record without ON;
\* an on call gives the last record an ON exactly when it passes a
\* criterion; no step changes the ON of an earlier record, and none but
\* an on call the ON of the last.
C11_OnFollowsLatestOnCall ==
    /\ []RenderedJoinClauses
    /\ [][LET n == Len(_joins[Main])
          IN  /\ JoinStep(Main) =>
                    (Len(_joins'[Main]) = n + 1 /\ ~HasOnNext(Main, n + 1))
              /\ \A fs \in CriteriaInputs :
                    (on(Main, fs) /\ n > 0) =>
                       (HasOnNext(Main, n) <=> (fs # <<>>))
              /\ \A k \in 1..(n - 1) :
                    _joins'[Main][k].filters = _joins[Main][k].filters
              /\ (n > 0 /\ _joins'[Main][n].filters # _joins[Main][n].filters)
                    => \E fs \in CriteriaInputs : on(Main, fs)]_vars

\* A SELECT rendered with one join that on gave a criterion to.
C11_Witness ==
    /\ result.kind = "str"
    /\ _operation[Main] = Some("select")
    /\ Len(_joins[Main]) = 1
    /\ HasOn(Main, 1)
    /\ EndsWith(result.val, " JOIN logs AS logs ON users.id = 'a'")

----------------------------------------------------------------------------
\* The Field nodes whose parent is the selectable s.
FieldsOf(s) ==
    {n \in 1..Len(nodes) : nodes[n].cls = "Field" /\ nodes[n].parent = s}

\* The alias a selectable has after as_(a): a itself, but for a Table
\* given the empty alias, which falls back to its name.
AliasAfter(s, a) == IF s \in Tables /\ a = "" THEN _name(s) ELSE a

\* C12: a Field of a selectable renders as <alias>.<name> with the alias
\* the selectable has when the Field is rendered: every as_ call makes
\* every Field of that selectable, those created before the call
\* included, render with the new alias and leaves the text of the other
\* Fields alone; a rendered Field returns that text; and a Table whose
\* alias was never set has its name as alias.
C12_FieldUsesCurrentAlias ==
    /\ [](\A t \in Tables : _alias[t] = None => AliasOf(t) = Some(_name(t)))
    /\ [][\A s \in Selectables, a \in Aliases :
            ((s \in Tables /\ Table_as_(s, a)) \/ (s \in Queries /\ as_(s, a)))
            => /\ \A n \in FieldsOf(s) :
                    TextOf(n)' = AliasAfter(s, a) \o "." \o nodes[n].name
               /\ \A o \in Selectables \ {s} : \A n \in FieldsOf(o) :
                    TextOf(n)' = TextOf(n)]_vars
    /\ [][\A n \in 1..Len(nodes) :
            (node__str__(n) /\ nodes[n].cls = "Field") =>
               /\ result' = Text(PyFormat(AliasOf(nodes[n].parent)) \o "."
                                  \o nodes[n].name)
               /\ UNCHANGED <<nodes, _alias>>]_vars

\* The Field users.id, which was there before any as_ call, rendered after
\* the table was given the alias v.
C12_Witness ==
    /\ result = Text("v.id")
    /\ _alias["t1"] = Some("v")
    /\ nodes[F1] = Field("id", "t1")

----------------------------------------------------------------------------
\* The alias written for the selectable s, with unaliased standing for a
\* Query on which as_ was never called.
AliasText(s, unaliased) ==
    IF s \in Queries /\ _alias[s] = None THEN unaliased
    ELSE PyFormat(AliasOf(s))

\* The text of the selectable s inside a statement.
SelectableText(s) == IF s \in Tables THEN _name(s) ELSE Query__str__(s).text

\* The SELECT statement of query i, with unaliased written as the alias of
\* each Query on which as_ was never called.
SelectText(i, unaliased) ==
    LET e == _selectable[i][1]
    IN  (IF _distinct[i] THEN "SELECT DISTINCT " ELSE "SELECT ")
        \o (IF _terms[i] = <<>> THEN AliasText(e, unaliased) \o ".*"
            ELSE TermList(i))
        \o " FROM "
        \o (IF e \in Tables THEN SelectableText(e)
            ELSE "(" \o SelectableText(e) \o ")")
        \o " AS " \o AliasText(e, unaliased)
        \o Concat([k \in 1..Len(_joins[i]) |->
                     LET j == _joins[i][k]
                     IN  " " \o JoinTypes[j.kind] \o " "
                             \o SelectableText(j.selectable) \o " AS "
                             \o AliasText(j.selectable, unaliased)
                             \o (IF HasOn(i, k)
                                 THEN " ON " \o StrJoin(Filters(j), "")
                                 ELSE "")])
        \o WhereList(i)

\* Query i is a SELECT with a FROM target that has, as FROM target or as a
\* join target, a Query on which as_ was never called and which renders.
SelectsUnaliasedQuery(i) ==
    /\ _operation[i] = Some("select")
    /\ _selectable[i] # None
    /\ LET used == {_selectable[i][1]}
                   \cup {_joins[i][k].selectable : k \in 1..Len(_joins[i])}
       IN  /\ \E s \in used : s \in Queries /\ _alias[s] = None
           /\ \A s \in used : s \in Queries => Query__str__(s).err = ""

\* C13 as stated: rendering a SELECT whose FROM source or join target is a
\* Query on which as_ was never called raises nothing and returns the
\* statement with an empty alias after AS and before .*
C13_UnaliasedQueryRendersEmptyAlias ==
    [][(__str__(Main) /\ SelectsUnaliasedQuery(Main)) =>
          result' = Text(SelectText(Main, ""))]_vars

\* C13, amended: rendering such a SELECT raises nothing and returns the
\* statement with the text None as the alias after AS and before .*
C13_UnaliasedQueryRendersNone ==
    [][(__str__(Main) /\ SelectsUnaliasedQuery(Main)) =>
          result' = Text(SelectText(Main, "None"))]_vars

\* A SELECT rendered from the unaliased inner Query, joined with it as
\* well.
C13_Witness ==
    /\ result.kind = "str"
    /\ _alias[Inner] = None
    /\ _selectable[Main] = Some(Inner)
    /\ Len(_joins[Main]) = 1
    /\ _joins[Main][1].selectable = Inner
    /\ StartsWith(result.val, "SELECT None.* FROM (SELECT users.* FROM ")
    /\ EndsWith(result.val,
                " AS None JOIN SELECT users.* FROM users AS users AS None")

----------------------------------------------------------------------------
\* The sign a comparison writes between its operands.
ComparisonSign(cls) ==
    CASE cls = "Equal" -> " = "
      [] cls = "NotEqual" -> " <> "
      [] cls = "LessThan" -> " < "
      [] cls = "LessEqual" -> " <= "
      [] cls = "GreaterThan" -> " > "
      [] cls = "GreaterEqual" -> " >= "

\* Node n was built from two nodes.
OfTwoNodes(n) == nodes[n].left.tag = "ref" /\ nodes[n].right.tag = "ref"

\* C14: for all trees A and B, A & B renders as (A) AND (B) and A | B as
\* (A) OR (B), whatever A and B are, nodes built by & and | included; a
\* comparison renders its operands with the sign between them and no
\* parentheses; and str of such a node returns that text.
C14_BooleanOperandsParenthesized ==
    /\ [](\A n \in 1..Len(nodes) :
            OfTwoNodes(n) =>
              LET a == TextOf(nodes[n].left.id)
                  b == TextOf(nodes[n].right.id)
                  cls == nodes[n].cls
              IN  /\ cls = "And" => TextOf(n) = "(" \o a \o ") AND (" \o b \o ")"
                  /\ cls = "Or" => TextOf(n) = "(" \o a \o ") OR (" \o b \o ")"
                  /\ cls \in Comparisons =>
                        TextOf(n) = a \o ComparisonSign(cls) \o b)
    /\ [][\A n \in 1..Len(nodes) :
            node__str__(n) => result' = Text(TextOf(n))]_vars

\* The text of (E1 | E2) & E1 returned by str: an And whose left operand
\* is an Or of two comparisons.
C14_Witness ==
    /\ Len(nodes) = 6
    /\ nodes[5] = Binary("Or", Ref(E1), Ref(E2))
    /\ nodes[6] = Binary("And", Ref(5), Ref(E1))
    /\ result = Text("((users.id = 'a') OR (logs.name <> users.id))"
                     \o " AND (users.id = 'a')")

----------------------------------------------------------------------------
\* C15: a render changes no expression node but the Equal nodes it
\* renders, and of those only the right operand, when it is a raw scalar,
\* which becomes the Constant of that scalar; the left operand, the class
\* and the number of nodes stay; the rendered Equal itself holds the
\* Constant afterwards; and the text of every node is after the render
\* what it was before, so that a later render returns what this one
\* returned.
C15_OnlyEqualLiftsOnRender ==
    [][\A n \in 1..Len(nodes) :
         node__str__(n) =>
            /\ Len(nodes') = Len(nodes)
            /\ \A k \in 1..Len(nodes) :
                  /\ nodes'[k].left = nodes[k].left
                  /\ nodes'[k].cls = nodes[k].cls
                  /\ nodes'[k] # nodes[k] =>
                        /\ nodes[k].cls = "Equal"
                        /\ k \in Visited(Ref(n))
                        /\ nodes[k].right.tag = "raw"
                        /\ nodes'[k].right = Constant(nodes[k].right)
                  /\ TextOf(k)' = TextOf(k)
            /\ (nodes[n].cls = "Equal" /\ nodes[n].right.tag = "raw") =>
                  /\ nodes'[n].right = Constant(nodes[n].right)
                  /\ nodes'[n].right.tag = "const"
            /\ result' = Text(TextOf(n)')]_vars

\* An Equal built by == from a Field and the string it's, rendered: the
\* right operand is now the Constant, in double quotes.
C15_Witness ==
    /\ Len(nodes) = 5
    /\ nodes[5].cls = "Equal"
    /\ nodes[5].left = Ref(F2)
    /\ nodes[5].right = Constant(Raw("str", "it's"))
    /\ result = Text("logs.name = \"it's\"")

====
